---- MODULE Spec2Model ----
(***************************************************************************)
(* Model of the NPPES pharmacy pipeline (nppes_pharmacy.py) and of the     *)
(* Group Registry handlers of the dashboard (ui_app.py).                   *)
(*                                                                         *)
(* A table (pandas DataFrame / CSV file) is a record                       *)
(*   [columns |-> sequence of column names, rows |-> sequence of rows]     *)
(* and a row is a function from column names to cells.  A cell is a string *)
(* or the null marker NaN.                                                 *)
(***************************************************************************)
EXTENDS Integers, Sequences, FiniteSets, TLC

VARIABLES
    \* ---- filter_npi_file, run on one primary dataset
    csv_rows,          \* the rows pd.read_csv parses from the primary file
    taxonomy_col,      \* the 'Taxonomy Code' column of taxonomy.csv as parsed
    batch,             \* the batch size (chunksize)
    offset,            \* rows of csv_rows already consumed by the loop
    filtered_chunks,   \* the list filtered_chunks
    debug,             \* one record per batch: what the [DEBUG] lines print
    filter_result,     \* the DataFrame filter_npi_file returns
    filter_pc          \* "off" | "loop" | "done"

    ,
    \* ---- merge_othername, run on one filtered frame and one alternate-name file
    filtered_df,       \* the argument filtered_df
    othername_rows,    \* the rows pd.read_csv parses from the alternate-name file
    merged,            \* the DataFrame merge_othername returns
    merge_pc           \* "off" | "call" | "done"

    ,
    \* ---- main, run repeatedly over one installation directory
    pc,                \* the stage main is at; "Returned" between runs
    run,               \* the number of runs started
    zip_exists,        \* ROOT/nppes_data.zip is on disk
    zip_files,         \* the members of the archive the current run downloaded
    unzipped,          \* the files in ROOT/unzipped
    npi_dir,           \* the files in input/npi_pfile
    othername_dir,     \* the files in input/othername_pfile
    archive_npi_dir,   \* the files in archive/npi_pfile
    archive_othername_dir, \* the files in archive/othername_pfile
    output_state,      \* OUTPUT_FILE: "absent" | "partial" | "written"
    output_rows,       \* the rows of OUTPUT_FILE
    npi_file,          \* the local npi_file
    othername_file,    \* the local othername_file
    filtered_npi_df,   \* the local filtered_npi_df
    final_df,          \* the local final_df
    \* history of the current run
    outcome,           \* "none" | "running" | "done" | "empty" | "aborted"
    downloaded,        \* download_nppes_zip returned in this run
    filtered_done,     \* filter_npi_file returned in this run
    written,           \* to_csv(OUTPUT_FILE) returned in this run
    output_at_start,   \* output_state when this run started
    held,              \* input files seen in the input directories in this run
    moved_out          \* files this run moved out of the input directories

    ,
    \* ---- the dashboard's Group Registry handlers, in two browser sessions
    GROUP_CSV,         \* group_pharmacies.csv: [exists, rows]
    session,           \* per session: the handler it is in and its frames
    clicks,            \* the number of button clicks handled so far
    \* history of the registry
    last_write,        \* the last write: [op, npis, base] (base: the file as read)
    reported,          \* identifiers reported added and not reported deleted since
    stale_write,       \* some handler wrote a frame read before another's write
    writers            \* the sessions that have written the registry

filterVars == <<csv_rows, taxonomy_col, batch, offset, filtered_chunks, debug,
                filter_result, filter_pc>>

mergeVars == <<filtered_df, othername_rows, merged, merge_pc>>

diskVars == <<zip_exists, zip_files, unzipped, npi_dir, othername_dir,
              archive_npi_dir, archive_othername_dir, output_state, output_rows>>

localVars == <<npi_file, othername_file, filtered_npi_df, final_df>>

historyVars == <<outcome, downloaded, filtered_done, written, output_at_start,
                 held, moved_out>>

mainVars == <<pc, run, diskVars, localVars, historyVars>>

uiVars == <<GROUP_CSV, session, clicks, last_write, reported, stale_write, writers>>

vars == <<filterVars, mergeVars, mainVars, uiVars>>

----------------------------------------------------------------------------
(* Bounds of the model *)
MaxRows == 4
MaxBatch == 4
MaxFiltered == 2
MaxOther == 2
MaxRuns == 2
MaxClicks == 3

----------------------------------------------------------------------------
(* Cells and tables *)

\* pandas' null marker (what read_csv gives for a missing or NA-like field)
NaN == "<NaN>"

Range(s) == {s[i] : i \in DOMAIN s}

Min(a, b) == IF a < b THEN a ELSE b

STANDARD_COLUMNS ==
    << "NPI",
       "Provider Organization Name (Legal Business Name)",
       "Provider Other Organization Name_y",
       "Provider First Line Business Practice Location Address",
       "Provider Second Line Business Practice Location Address",
       "Provider Business Practice Location Address City Name",
       "Provider Business Practice Location Address State Name",
       "Provider Business Practice Location Address Postal Code",
       "Healthcare Provider Taxonomy Code_1",
       "Provider License Number_1",
       "Provider License Number State Code_1" >>

\* The columns of the primary dataset that the model carries.
NPI_COLUMNS ==
    << "NPI",
       "Entity Type Code",
       "Provider Organization Name (Legal Business Name)",
       "Healthcare Provider Taxonomy Code_1",
       "NPI Deactivation Date" >>

\* DataFrame.fillna("") on a sequence of rows
fillna(rows) ==
    [i \in DOMAIN rows |->
        [c \in DOMAIN rows[i] |-> IF rows[i][c] = NaN THEN "" ELSE rows[i][c]]]

\* str.strip() on the cell values the model draws
str_strip(s) ==
    CASE s = " " -> ""
      [] s = " 20200101 " -> "20200101"
      [] OTHER -> s

\* pd.concat(list of row blocks, ignore_index=True)
RECURSIVE concat(_)
concat(chunks) ==
    IF chunks = << >> THEN << >> ELSE Head(chunks) \o concat(Tail(chunks))

----------------------------------------------------------------------------
(* filter_npi_file *)

\* set(taxonomy_df['Taxonomy Code'].dropna())
taxonomy_codes(col) == Range(col) \ {NaN}

EntityTypeFilter(chunk) ==
    SelectSeq(chunk, LAMBDA r : r["Entity Type Code"] = "2")

DeactivationFilter_nostrip(chunk) ==
    SelectSeq(chunk, LAMBDA r : r["NPI Deactivation Date"] = "")

DeactivationFilter(chunk) ==
    SelectSeq(chunk, LAMBDA r : str_strip(r["NPI Deactivation Date"]) = "")

TaxonomyFilter(chunk, codes) ==
    SelectSeq(chunk, LAMBDA r : r["Healthcare Provider Taxonomy Code_1"] \in codes)

\* A plausible slip: the deactivation test placed before the entity-type test.
filter_chunk_swapped(raw, codes) ==
    LET c0 == fillna(raw)
        c1 == DeactivationFilter(c0)
        c2 == EntityTypeFilter(c1)
        c3 == TaxonomyFilter(c2, codes)
    IN  [ rows |-> c3,
          size |-> Len(c0),
          entity_removed |-> Len(c0) - Len(c1),
          deactivation_removed |-> Len(c1) - Len(c2),
          taxonomy_removed |-> Len(c2) - Len(c3) ]

\* The body of the loop over batches: the three stages and the counts printed.
filter_chunk(raw, codes) ==
    LET c0 == fillna(raw)
        before_entity == Len(c0)
        c1 == EntityTypeFilter(c0)
        before_deactivation == Len(c1)
        c2 == DeactivationFilter(c1)
        before_taxonomy == Len(c2)
        c3 == TaxonomyFilter(c2, codes)
    IN  [ rows |-> c3,
          size |-> Len(c0),
          entity_removed |-> before_entity - Len(c1),
          deactivation_removed |-> before_deactivation - Len(c2),
          taxonomy_removed |-> before_taxonomy - Len(c3) ]

\* What filter_npi_file returns from the accumulated blocks.
filter_return(chunks) ==
    IF chunks # << >>
    THEN [columns |-> NPI_COLUMNS, rows |-> concat(chunks)]
    ELSE [columns |-> STANDARD_COLUMNS, rows |-> << >>]

\* The batches of a dataset, processed in turn.
RECURSIVE filter_loop(_, _, _, _)
filter_loop(rows, codes, chunksz, acc) ==
    IF rows = << >> THEN acc
    ELSE LET n == Min(chunksz, Len(rows))
             res == filter_chunk(SubSeq(rows, 1, n), codes)
         IN  filter_loop(SubSeq(rows, n + 1, Len(rows)), codes, chunksz,
                         IF res.rows # << >> THEN Append(acc, res.rows) ELSE acc)

filter_npi_file(rows, col, chunksz) ==
    filter_return(filter_loop(rows, taxonomy_codes(col), chunksz, << >>))

\* DataFrame.empty
empty(df) == df.rows = << >> \/ df.columns = << >>

(* Inputs of the filter *)
MkNpiRow(npi, entity, deact, tax) ==
    [c \in Range(NPI_COLUMNS) |->
        CASE c = "NPI" -> npi
          [] c = "Entity Type Code" -> entity
          [] c = "NPI Deactivation Date" -> deact
          [] c = "Healthcare Provider Taxonomy Code_1" -> tax
          [] OTHER -> "ORG"]

\* The rows the datasets are drawn from: an individual and an organization for
\* each way of failing or passing the three stages (deactivation date missing,
\* blank or a date; taxonomy code "207Q00000X" is whitelisted by one of the
\* two taxonomy sources only).
NpiRows ==
    { MkNpiRow("1234567890", "1", NaN, "3336C0003X"),
      MkNpiRow("1234567890", "1", "20200101", "207Q00000X"),
      MkNpiRow("1234567890", "2", NaN, "3336C0003X"),
      MkNpiRow("1234567890", "2", " ", "3336C0003X"),
      MkNpiRow("1234567890", "2", "20200101", "3336C0003X"),
      MkNpiRow("1234567890", "2", NaN, "207Q00000X") }

SeqsUpTo(S, n) == UNION { [1..k -> S] : k \in 0..n }

TaxonomySources == { <<"3336C0003X", NaN>>, <<"3336C0003X", "207Q00000X">> }

NoFrame == [columns |-> << >>, rows |-> << >>]

FilterOff ==
    /\ csv_rows = << >>
    /\ taxonomy_col = << >>
    /\ batch = 1
    /\ offset = 0
    /\ filtered_chunks = << >>
    /\ debug = << >>
    /\ filter_result = NoFrame
    /\ filter_pc = "off"

InitFilter ==
    /\ csv_rows \in SeqsUpTo(NpiRows, MaxRows)
    /\ taxonomy_col \in TaxonomySources
    /\ batch \in 1..MaxBatch
    /\ offset = 0
    /\ filtered_chunks = << >>
    /\ debug = << >>
    /\ filter_result = NoFrame
    /\ filter_pc = "loop"

\* One iteration of `for chunk in pd.read_csv(..., chunksize=chunksize)`
FilterBatch ==
    /\ filter_pc = "loop"
    /\ offset < Len(csv_rows)
    /\ LET last == Min(offset + batch, Len(csv_rows))
           res == filter_chunk(SubSeq(csv_rows, offset + 1, last),
                               taxonomy_codes(taxonomy_col))
       IN  /\ filtered_chunks' = IF res.rows # << >>
                                 THEN Append(filtered_chunks, res.rows)
                                 ELSE filtered_chunks
           /\ debug' = Append(debug, [size |-> res.size,
                                      entity_removed |-> res.entity_removed,
                                      deactivation_removed |-> res.deactivation_removed,
                                      taxonomy_removed |-> res.taxonomy_removed,
                                      kept |-> res.rows])
           /\ offset' = last
    /\ UNCHANGED <<csv_rows, taxonomy_col, batch, filter_result, filter_pc>>
    /\ UNCHANGED <<mergeVars, mainVars, uiVars>>

\* The end of the loop: concatenate, or return the empty frame
FilterReturn ==
    /\ filter_pc = "loop"
    /\ offset >= Len(csv_rows)
    /\ filter_result' = filter_return(filtered_chunks)
    /\ filter_pc' = "done"
    /\ UNCHANGED <<csv_rows, taxonomy_col, batch, offset, filtered_chunks, debug>>
    /\ UNCHANGED <<mergeVars, mainVars, uiVars>>

----------------------------------------------------------------------------
(* merge_othername *)

OTHER_NAME == "Provider Other Organization Name"
OTHER_NAME_X == "Provider Other Organization Name_x"
OTHER_NAME_Y == "Provider Other Organization Name_y"

\* pd.merge(left, right[['NPI', OTHER_NAME]], on='NPI', how='left'): one output
\* row per (left row, matching right row) pair in left order, and one row with
\* a null right side for a left row that matches nothing.  A column name the
\* two sides share besides the key gets the suffixes _x and _y.
pd_merge_left(left, right_rows) ==
    LET clash == OTHER_NAME \in Range(left.columns)
        rname == IF clash THEN OTHER_NAME_Y ELSE OTHER_NAME
        lcols == [i \in DOMAIN left.columns |->
                    IF clash /\ left.columns[i] = OTHER_NAME
                    THEN OTHER_NAME_X ELSE left.columns[i]]
        cols == Append(lcols, rname)
        mk(l, v) == [c \in Range(cols) |->
                        IF c = rname THEN v
                        ELSE IF clash /\ c = OTHER_NAME_X THEN l[OTHER_NAME]
                        ELSE l[c]]
        joined(l) ==
            LET m == SelectSeq(right_rows, LAMBDA r : r["NPI"] = l["NPI"])
            IN  IF m = << >> THEN << mk(l, NaN) >>
                ELSE [k \in DOMAIN m |-> mk(l, m[k][OTHER_NAME])]
    IN  [columns |-> cols,
         rows |-> concat([i \in DOMAIN left.rows |-> joined(left.rows[i])])]

\* DataFrame.rename(columns={old: new})
rename(df, old, new) ==
    LET nm(c) == IF c = old THEN new ELSE c
        back(c) == IF c = new /\ old \in Range(df.columns) THEN old ELSE c
    IN  [columns |-> [i \in DOMAIN df.columns |-> nm(df.columns[i])],
         rows |-> [i \in DOMAIN df.rows |->
                     [c \in {nm(x) : x \in Range(df.columns)} |-> df.rows[i][back(c)]]]]

\* for col in STANDARD_COLUMNS: if col not in merged.columns: merged[col] = ""
ensure_standard_columns(df) ==
    LET missing == SelectSeq(STANDARD_COLUMNS, LAMBDA c : c \notin Range(df.columns))
    IN  [columns |-> df.columns \o missing,
         rows |-> [i \in DOMAIN df.rows |->
                     [c \in Range(df.columns) \cup Range(missing) |->
                         IF c \in Range(df.columns) THEN df.rows[i][c] ELSE ""]]]

\* merged[STANDARD_COLUMNS]
project_standard(df) ==
    [columns |-> STANDARD_COLUMNS,
     rows |-> [i \in DOMAIN df.rows |->
                 [c \in Range(STANDARD_COLUMNS) |-> df.rows[i][c]]]]

merge_othername(filtered, other_rows) ==
    LET othername_df == fillna(other_rows)
        m1 == pd_merge_left(filtered, othername_df)
        m2 == rename(m1, OTHER_NAME, OTHER_NAME_Y)
        m3 == ensure_standard_columns(m2)
    IN  project_standard(m3)

(* Inputs of the merge *)
NPIs == {"1234567890", "1987654321"}

\* The filtered frame: rows that passed the three stages, with or without the
\* primary file's own 'Provider Other Organization Name' column.
FilteredColumns == { NPI_COLUMNS, Append(NPI_COLUMNS, OTHER_NAME) }

MkFilteredRow(cols, npi) ==
    [c \in Range(cols) |->
        CASE c = "NPI" -> npi
          [] c = "Entity Type Code" -> "2"
          [] c = "NPI Deactivation Date" -> ""
          [] c = "Healthcare Provider Taxonomy Code_1" -> "3336C0003X"
          [] c = OTHER_NAME -> "FORMER NAME"
          [] OTHER -> "ORG"]

FilteredFrames ==
    { [columns |-> cols, rows |-> [i \in DOMAIN ids |-> MkFilteredRow(cols, ids[i])]] :
        cols \in FilteredColumns,
        ids \in (SeqsUpTo(NPIs, MaxFiltered) \ {<< >>}) }

OTHERNAME_COLUMNS == << "NPI", OTHER_NAME, "Provider Other Organization Name Type Code" >>

MkOtherRow(npi, name) ==
    [c \in Range(OTHERNAME_COLUMNS) |->
        CASE c = "NPI" -> npi
          [] c = OTHER_NAME -> name
          [] OTHER -> "3"]

OtherRows == { MkOtherRow(n, v) : n \in NPIs, v \in {"Acme Pharmacy", NaN} }

MergeOff ==
    /\ filtered_df = NoFrame
    /\ othername_rows = << >>
    /\ merged = NoFrame
    /\ merge_pc = "off"

InitMerge ==
    /\ filtered_df \in FilteredFrames
    /\ othername_rows \in SeqsUpTo(OtherRows, MaxOther)
    /\ merged = NoFrame
    /\ merge_pc = "call"

\* The call merge_othername(filtered_df, othername_file)
MergeOthername ==
    /\ merge_pc = "call"
    /\ merged' = merge_othername(filtered_df, othername_rows)
    /\ merge_pc' = "done"
    /\ UNCHANGED <<filtered_df, othername_rows>>
    /\ UNCHANGED <<filterVars, mainVars, uiVars>>

----------------------------------------------------------------------------
(* main and the stages it calls *)

chunksize == 500000

\* A file name, by the parts the code tests: the prefix before the release
\* part, the release part, and whether it ends in _fileheader.csv.
File(role, rel, header) == [role |-> role, rel |-> rel, header |-> header]

NoFile == File("", "", FALSE)

Releases == {"A", "B"}

\* A release archive: the primary and alternate-name data files, their header
\* description files, and a data file of another kind.
Release(rel) ==
    { File("npidata_pfile", rel, FALSE), File("npidata_pfile", rel, TRUE),
      File("othername_pfile", rel, FALSE), File("othername_pfile", rel, TRUE),
      File("pl_pfile", rel, FALSE) }

\* The archives a download can deliver: a release, or one lacking its
\* alternate-name data file.
Archives ==
    { Release(rel) : rel \in Releases }
    \cup { Release(rel) \ {File("othername_pfile", rel, FALSE)} : rel \in Releases }

\* The rows of a primary data file: release A holds an active whitelisted
\* organization and an individual, release B only a deactivated organization.
NpiData(f) ==
    IF f.rel = "A"
    THEN << MkNpiRow("1234567890", "2", NaN, "3336C0003X"),
            MkNpiRow("1987654321", "1", NaN, "3336C0003X") >>
    ELSE << MkNpiRow("1234567890", "2", "20200101", "3336C0003X") >>

OthernameData(f) == << MkOtherRow("1234567890", "Acme Pharmacy") >>

\* The 'Taxonomy Code' column of TAXONOMY_FILE
TAXONOMY_FILE == << "3336C0003X", NaN >>

\* DataFrame.to_csv: the rows written, a null cell written as the empty field
to_csv(df) ==
    [i \in DOMAIN df.rows |->
        [c \in DOMAIN df.rows[i] |->
            IF df.rows[i][c] = NaN THEN "" ELSE df.rows[i][c]]]

\* move_files: what it moves into each input directory
moves_to_npi(dir) ==
    {f \in dir : ~f.header /\ f.role = "npidata_pfile"}

moves_to_othername(dir) ==
    {f \in dir : ~f.header /\ f.role # "npidata_pfile" /\ f.role = "othername_pfile"}

\* Path.glob('npidata_pfile*.csv') and Path.glob('othername_pfile*.csv')
glob_npidata(dir) == {f \in dir : f.role = "npidata_pfile"}
glob_othername(dir) == {f \in dir : f.role = "othername_pfile"}

\* archive_input_files: what it moves out of the input directories, and where
archives_to_npi(dir) == {f \in dir : f.role = "npidata_pfile"}
archives_to_othername(dir) ==
    {f \in dir : f.role # "npidata_pfile" /\ f.role = "othername_pfile"}

\* `if filtered_npi_df.empty: return`
stops_on_empty_never(df) == FALSE

stops_on_empty(df) == empty(df)

\* A plausible slip: the inputs archived before the output is written.
next_stage_archive_first(stage) ==
    CASE stage = "Fetching" -> "Extracting"
      [] stage = "Extracting" -> "Organizing"
      [] stage = "Organizing" -> "Detecting"
      [] stage = "Detecting" -> "Filtering"
      [] stage = "Filtering" -> "Merging"
      [] stage = "Merging" -> "Archiving"
      [] stage = "Archiving" -> "Writing"
      [] stage = "Writing" -> "Cleanup"
      [] OTHER -> "Returned"

\* The order of the statements of main's try block
next_stage(stage) ==
    CASE stage = "Fetching" -> "Extracting"
      [] stage = "Extracting" -> "Organizing"
      [] stage = "Organizing" -> "Detecting"
      [] stage = "Detecting" -> "Filtering"
      [] stage = "Filtering" -> "Merging"
      [] stage = "Merging" -> "Writing"
      [] stage = "Writing" -> "Archiving"
      [] stage = "Archiving" -> "Cleanup"
      [] OTHER -> "Returned"

MainOff ==
    /\ pc = "off"
    /\ run = 0
    /\ zip_exists = FALSE
    /\ zip_files = {}
    /\ unzipped = {}
    /\ npi_dir = {}
    /\ othername_dir = {}
    /\ archive_npi_dir = {}
    /\ archive_othername_dir = {}
    /\ output_state = "absent"
    /\ output_rows = << >>
    /\ npi_file = NoFile
    /\ othername_file = NoFile
    /\ filtered_npi_df = NoFrame
    /\ final_df = NoFrame
    /\ outcome = "none"
    /\ downloaded = FALSE
    /\ filtered_done = FALSE
    /\ written = FALSE
    /\ output_at_start = "absent"
    /\ held = {}
    /\ moved_out = {}

\* A fresh installation: nothing downloaded, no input, archive or output file.
InitMain ==
    /\ pc = "Returned"
    /\ run = 0
    /\ zip_exists = FALSE
    /\ zip_files = {}
    /\ unzipped = {}
    /\ npi_dir = {}
    /\ othername_dir = {}
    /\ archive_npi_dir = {}
    /\ archive_othername_dir = {}
    /\ output_state = "absent"
    /\ output_rows = << >>
    /\ npi_file = NoFile
    /\ othername_file = NoFile
    /\ filtered_npi_df = NoFrame
    /\ final_df = NoFrame
    /\ outcome = "none"
    /\ downloaded = FALSE
    /\ filtered_done = FALSE
    /\ written = FALSE
    /\ output_at_start = "absent"
    /\ held = {}
    /\ moved_out = {}

\* main() is entered
StartRun ==
    /\ pc = "Returned"
    /\ run < MaxRuns
    /\ pc' = "Fetching"
    /\ run' = run + 1
    /\ zip_files' = {}
    /\ npi_file' = NoFile
    /\ othername_file' = NoFile
    /\ filtered_npi_df' = NoFrame
    /\ final_df' = NoFrame
    /\ outcome' = "running"
    /\ downloaded' = FALSE
    /\ filtered_done' = FALSE
    /\ written' = FALSE
    /\ output_at_start' = output_state
    /\ held' = npi_dir \cup othername_dir
    /\ moved_out' = {}
    /\ UNCHANGED <<zip_exists, unzipped, npi_dir, othername_dir, archive_npi_dir,
                   archive_othername_dir, output_state, output_rows>>
    /\ UNCHANGED <<filterVars, mergeVars, uiVars>>

\* zip_path = download_nppes_zip()
Download ==
    /\ pc = "Fetching"
    /\ \E a \in Archives : zip_files' = a
    /\ zip_exists' = TRUE
    /\ downloaded' = TRUE
    /\ pc' = next_stage(pc)
    /\ UNCHANGED <<run, unzipped, npi_dir, othername_dir, archive_npi_dir,
                   archive_othername_dir, output_state, output_rows, localVars,
                   outcome, filtered_done, written, held, moved_out, output_at_start>>
    /\ UNCHANGED <<filterVars, mergeVars, uiVars>>

\* unzip_file(zip_path)
Unzip ==
    /\ pc = "Extracting"
    /\ unzipped' = unzipped \cup zip_files
    /\ pc' = next_stage(pc)
    /\ UNCHANGED <<run, zip_exists, zip_files, npi_dir, othername_dir,
                   archive_npi_dir, archive_othername_dir, output_state,
                   output_rows, localVars, historyVars>>
    /\ UNCHANGED <<filterVars, mergeVars, uiVars>>

\* move_files()
MoveFiles ==
    /\ pc = "Organizing"
    /\ npi_dir' = npi_dir \cup moves_to_npi(unzipped)
    /\ othername_dir' = othername_dir \cup moves_to_othername(unzipped)
    /\ unzipped' = unzipped \ (moves_to_npi(unzipped) \cup moves_to_othername(unzipped))
    /\ held' = held \cup moves_to_npi(unzipped) \cup moves_to_othername(unzipped)
    /\ pc' = next_stage(pc)
    /\ UNCHANGED <<run, zip_exists, zip_files, archive_npi_dir, archive_othername_dir,
                   output_state, output_rows, localVars, outcome, downloaded,
                   filtered_done, written, moved_out, output_at_start>>
    /\ UNCHANGED <<filterVars, mergeVars, uiVars>>

\* "Detect input files": the two globs, the check and the choice of [0]; the
\* order of a directory listing is the file system's, so [0] is any match.
DetectInputFiles ==
    /\ pc = "Detecting"
    /\ LET npi_files == glob_npidata(npi_dir)
           othername_files == glob_othername(othername_dir)
       IN  IF npi_files = {} \/ othername_files = {}
           THEN /\ pc' = "Returned"
                /\ outcome' = "aborted"
                /\ UNCHANGED <<npi_file, othername_file>>
           ELSE /\ npi_file' \in npi_files
                /\ othername_file' \in othername_files
                /\ pc' = next_stage(pc)
                /\ UNCHANGED outcome
    /\ UNCHANGED <<run, diskVars, filtered_npi_df, final_df, downloaded,
                   filtered_done, written, held, moved_out, output_at_start>>
    /\ UNCHANGED <<filterVars, mergeVars, uiVars>>

\* filtered_npi_df = filter_npi_file(...); if filtered_npi_df.empty: return
Filter ==
    /\ pc = "Filtering"
    /\ LET df == filter_npi_file(NpiData(npi_file), TAXONOMY_FILE, chunksize)
       IN  /\ filtered_npi_df' = df
           /\ filtered_done' = TRUE
           /\ IF stops_on_empty(df)
              THEN pc' = "Returned" /\ outcome' = "empty"
              ELSE pc' = next_stage(pc) /\ UNCHANGED outcome
    /\ UNCHANGED <<run, diskVars, npi_file, othername_file, final_df, downloaded,
                   written, held, moved_out, output_at_start>>
    /\ UNCHANGED <<filterVars, mergeVars, uiVars>>

\* final_df = merge_othername(filtered_npi_df, othername_file)
Merge ==
    /\ pc = "Merging"
    /\ final_df' = merge_othername(filtered_npi_df, OthernameData(othername_file))
    /\ pc' = next_stage(pc)
    /\ UNCHANGED <<run, diskVars, npi_file, othername_file, filtered_npi_df,
                   historyVars>>
    /\ UNCHANGED <<filterVars, mergeVars, uiVars>>

\* final_df.to_csv(OUTPUT_FILE, index=False)
Write ==
    /\ pc = "Writing"
    /\ output_state' = "written"
    /\ output_rows' = to_csv(final_df)
    /\ written' = TRUE
    /\ pc' = next_stage(pc)
    /\ UNCHANGED <<run, zip_exists, zip_files, unzipped, npi_dir, othername_dir,
                   archive_npi_dir, archive_othername_dir, localVars, outcome,
                   downloaded, filtered_done, held, moved_out, output_at_start>>
    /\ UNCHANGED <<filterVars, mergeVars, uiVars>>

\* archive_input_files()
ArchiveInputFiles ==
    /\ pc = "Archiving"
    /\ LET all == npi_dir \cup othername_dir
           to_npi == archives_to_npi(all)
           to_other == archives_to_othername(all)
       IN  /\ archive_npi_dir' = archive_npi_dir \cup to_npi
           /\ archive_othername_dir' = archive_othername_dir \cup to_other
           /\ npi_dir' = npi_dir \ (to_npi \cup to_other)
           /\ othername_dir' = othername_dir \ (to_npi \cup to_other)
           /\ moved_out' = moved_out \cup to_npi \cup to_other
    /\ pc' = next_stage(pc)
    /\ UNCHANGED <<run, zip_exists, zip_files, unzipped, output_state, output_rows,
                   localVars, outcome, downloaded, filtered_done, written, held, output_at_start>>
    /\ UNCHANGED <<filterVars, mergeVars, uiVars>>

\* "Cleanup": zip_path.unlink(missing_ok=True); shutil.rmtree(ROOT / 'unzipped')
Cleanup ==
    /\ pc = "Cleanup"
    /\ zip_exists' = FALSE
    /\ unzipped' = {}
    /\ pc' = "Returned"
    /\ outcome' = "done"
    /\ UNCHANGED <<run, zip_files, npi_dir, othername_dir, archive_npi_dir,
                   archive_othername_dir, output_state, output_rows, localVars,
                   downloaded, filtered_done, written, held, moved_out, output_at_start>>
    /\ UNCHANGED <<filterVars, mergeVars, uiVars>>

\* A call of the try block raises (network, bad archive, file system, missing
\* column); `except Exception` prints the error and main returns.  A download
\* that fails may have created the archive file, a write that fails may have
\* created the output file; a move or an archival that fails may have moved
\* some of its files.
Raise ==
    /\ pc \in {"Fetching", "Extracting", "Organizing", "Filtering", "Merging",
                "Writing", "Archiving"}
    /\ zip_exists' \in (IF pc = "Fetching" THEN {zip_exists, TRUE} ELSE {zip_exists})
    /\ \/ UNCHANGED <<output_state, output_rows>>
       \/ /\ pc = "Writing"
          /\ output_state' = "partial"
          /\ output_rows' = << >>
    /\ \/ UNCHANGED <<unzipped, npi_dir, othername_dir, archive_npi_dir,
                       archive_othername_dir, held, moved_out>>
       \/ /\ pc = "Organizing"
          /\ \E f \in moves_to_npi(unzipped) \cup moves_to_othername(unzipped) :
                /\ npi_dir' = npi_dir \cup moves_to_npi({f})
                /\ othername_dir' = othername_dir \cup moves_to_othername({f})
                /\ unzipped' = unzipped \ {f}
                /\ held' = held \cup {f}
          /\ UNCHANGED <<archive_npi_dir, archive_othername_dir, moved_out>>
       \/ /\ pc = "Archiving"
          /\ \E f \in archives_to_npi(npi_dir \cup othername_dir)
                       \cup archives_to_othername(npi_dir \cup othername_dir) :
                /\ archive_npi_dir' = archive_npi_dir \cup archives_to_npi({f})
                /\ archive_othername_dir' =
                       archive_othername_dir \cup archives_to_othername({f})
                /\ npi_dir' = npi_dir \ {f}
                /\ othername_dir' = othername_dir \ {f}
                /\ moved_out' = moved_out \cup {f}
          /\ UNCHANGED <<unzipped, held>>
    /\ pc' = "Returned"
    /\ outcome' = "aborted"
    /\ UNCHANGED <<run, zip_files, localVars, downloaded, filtered_done,
                   written, held, output_at_start>>
    /\ UNCHANGED <<filterVars, mergeVars, uiVars>>

----------------------------------------------------------------------------
(* The Group Registry handlers of ui_app.py *)

GROUP_COLUMNS == << "Group Name", "NPI", "Pharmacy Name", "Start Date", "End Date" >>

\* The strings pd.read_csv takes for a missing value by default (the ones the
\* model's inputs can produce); dtype=str does not switch this off.
NA_VALUES == {"", "NA", "N/A", "NULL", "null", "NaN", "nan", "None"}

\* pd.read_csv(GROUP_CSV, dtype=str) on the rows of the file
read_csv(rows) ==
    [i \in DOMAIN rows |->
        [c \in DOMAIN rows[i] |->
            IF rows[i][c] \in NA_VALUES THEN NaN ELSE rows[i][c]]]

\* The frame the Add handler starts from: the file, or an empty frame
existing_df(file) == IF file.exists THEN read_csv(file.rows) ELSE << >>

\* 'Provider Other Organization Name_y' of the directory row of an identifier,
\* as load_data gives it (nulls filled with the empty string)
pharmacy_name(npi) == IF npi = "1234567890" THEN "Acme Pharmacy" ELSE ""

\* new_entries of the Add handler
new_entries(selected_npis, group_name, start_date, end_date) ==
    [i \in DOMAIN selected_npis |->
        [c \in Range(GROUP_COLUMNS) |->
            CASE c = "Group Name" -> str_strip(group_name)
              [] c = "NPI" -> selected_npis[i]
              [] c = "Pharmacy Name" -> pharmacy_name(selected_npis[i])
              [] c = "Start Date" -> start_date
              [] OTHER -> end_date]]

\* A plausible slip: the new entries written without the existing ones.
append_entries_only_new(existing, entries) == entries

\* pd.concat([existing_df, pd.DataFrame(new_entries)], ignore_index=True)
append_entries(existing, entries) == existing \o entries

\* groups_df[~groups_df['NPI'].isin(delete_npis)]
delete_rows(df, delete_npis) ==
    SelectSeq(df, LAMBDA r : r["NPI"] \notin delete_npis)

\* groups_df.loc[groups_df['NPI'].isin(edit_npis), 'Start Date' / 'End Date'] = ...
edit_dates(df, edit_npis, new_start, new_end) ==
    [i \in DOMAIN df |->
        IF df[i]["NPI"] \in edit_npis
        THEN [df[i] EXCEPT !["Start Date"] = new_start, !["End Date"] = new_end]
        ELSE df[i]]

\* groups_df['NPI'].unique(): the options of the delete and edit selectors
npi_options(df) == {df[i]["NPI"] : i \in DOMAIN df}

(* Inputs of the handlers *)
Sessions == {"s1", "s2"}

\* selected_npis: the selections of the multiselect, in the order chosen
Selections == { << >>, <<"1234567890">>, <<"1987654321">>,
                <<"1234567890", "1987654321">> }

GroupNames == {"P305", "NA", " "}

Idle == [pc |-> "idle", op |-> "", npis |-> {}, base |-> [exists |-> FALSE, rows |-> << >>],
         df |-> << >>]

NoWrite == [op |-> "", npis |-> {}, base |-> [exists |-> FALSE, rows |-> << >>]]

RegistryOff ==
    /\ GROUP_CSV = [exists |-> FALSE, rows |-> << >>]
    /\ session = [s \in Sessions |-> Idle]
    /\ clicks = MaxClicks
    /\ last_write = NoWrite
    /\ reported = {}
    /\ stale_write = FALSE
    /\ writers = {}

\* No registry file yet, both sessions showing the page.
InitRegistry ==
    /\ GROUP_CSV = [exists |-> FALSE, rows |-> << >>]
    /\ session = [s \in Sessions |-> Idle]
    /\ clicks = 0
    /\ last_write = NoWrite
    /\ reported = {}
    /\ stale_write = FALSE
    /\ writers = {}

\* "Add Selected Pharmacies to Group" up to the concat: the two warnings, the
\* new entries, the read of the registry
AddSelected(s) ==
    /\ session[s].pc = "idle"
    /\ clicks < MaxClicks
    /\ clicks' = clicks + 1
    /\ \E selected_npis \in Selections, group_name \in GroupNames :
          IF selected_npis = << >> \/ str_strip(group_name) = ""
          THEN UNCHANGED session
          ELSE session' = [session EXCEPT ![s] =
                  [pc |-> "write", op |-> "add", npis |-> Range(selected_npis),
                   base |-> GROUP_CSV,
                   df |-> append_entries(existing_df(GROUP_CSV),
                             new_entries(selected_npis, group_name,
                                         "2024-01-01", "2024-12-31"))]]
    /\ UNCHANGED <<GROUP_CSV, last_write, reported, stale_write, writers>>
    /\ UNCHANGED <<filterVars, mergeVars, mainVars>>

\* "Delete Selected" up to the filtering: the read at the top of the section,
\* shown only for a registry with rows
DeleteSelected(s) ==
    /\ session[s].pc = "idle"
    /\ clicks < MaxClicks
    /\ GROUP_CSV.exists
    /\ read_csv(GROUP_CSV.rows) # << >>
    /\ clicks' = clicks + 1
    /\ LET groups_df == read_csv(GROUP_CSV.rows)
       IN  \E delete_npis \in SUBSET npi_options(groups_df) :
              IF delete_npis = {}
              THEN UNCHANGED session
              ELSE session' = [session EXCEPT ![s] =
                      [pc |-> "write", op |-> "delete", npis |-> delete_npis,
                       base |-> GROUP_CSV,
                       df |-> delete_rows(groups_df, delete_npis)]]
    /\ UNCHANGED <<GROUP_CSV, last_write, reported, stale_write, writers>>
    /\ UNCHANGED <<filterVars, mergeVars, mainVars>>

\* "Apply Date Changes" up to the two assignments
ApplyDateChanges(s) ==
    /\ session[s].pc = "idle"
    /\ clicks < MaxClicks
    /\ GROUP_CSV.exists
    /\ read_csv(GROUP_CSV.rows) # << >>
    /\ clicks' = clicks + 1
    /\ LET groups_df == read_csv(GROUP_CSV.rows)
       IN  \E edit_npis \in SUBSET npi_options(groups_df) :
              IF edit_npis = {}
              THEN UNCHANGED session
              ELSE session' = [session EXCEPT ![s] =
                      [pc |-> "write", op |-> "edit", npis |-> edit_npis,
                       base |-> GROUP_CSV,
                       df |-> edit_dates(groups_df, edit_npis,
                                         "2025-01-01", "2025-06-30")]]
    /\ UNCHANGED <<GROUP_CSV, last_write, reported, stale_write, writers>>
    /\ UNCHANGED <<filterVars, mergeVars, mainVars>>

\* The handler's to_csv(GROUP_CSV, index=False) and its success message
WriteGroupCsv(s) ==
    /\ session[s].pc = "write"
    /\ GROUP_CSV' = [exists |-> TRUE, rows |-> to_csv([rows |-> session[s].df])]
    /\ last_write' = [op |-> session[s].op, npis |-> session[s].npis,
                      base |-> session[s].base]
    /\ reported' = CASE session[s].op = "add" -> reported \cup session[s].npis
                     [] session[s].op = "delete" -> reported \ session[s].npis
                     [] OTHER -> reported
    /\ stale_write' = (stale_write \/ session[s].base # GROUP_CSV)
    /\ writers' = writers \cup {s}
    /\ session' = [session EXCEPT ![s] = Idle]
    /\ UNCHANGED clicks
    /\ UNCHANGED <<filterVars, mergeVars, mainVars>>

----------------------------------------------------------------------------
(* Specifications *)

NextMain ==
    \/ StartRun
    \/ Download
    \/ Unzip
    \/ MoveFiles
    \/ DetectInputFiles
    \/ Filter
    \/ Merge
    \/ Write
    \/ ArchiveInputFiles
    \/ Cleanup
    \/ Raise

InitSpec == FilterOff /\ MergeOff /\ InitMain /\ RegistryOff

Spec == InitSpec /\ [][NextMain]_vars

NextFilter ==
    \/ FilterBatch
    \/ FilterReturn

InitSpecFilter == InitFilter /\ MergeOff /\ MainOff /\ RegistryOff

SpecFilter == InitSpecFilter /\ [][NextFilter]_vars

NextMerge == MergeOthername

InitSpecMerge == FilterOff /\ InitMerge /\ MainOff /\ RegistryOff

SpecMerge == InitSpecMerge /\ [][NextMerge]_vars

NextRegistry ==
    \/ \E s \in Sessions : AddSelected(s)
    \/ \E s \in Sessions : DeleteSelected(s)
    \/ \E s \in Sessions : ApplyDateChanges(s)
    \/ \E s \in Sessions : WriteGroupCsv(s)

InitSpecRegistry == FilterOff /\ MergeOff /\ MainOff /\ InitRegistry

SpecRegistry == InitSpecRegistry /\ [][NextRegistry]_vars

----------------------------------------------------------------------------
(* Claims about filter_npi_file *)

\* The rows of csv_rows that batch i of the loop reads, nulls filled.
BatchRows(i) ==
    fillna(SubSeq(csv_rows, (i - 1) * batch + 1, Min(i * batch, Len(csv_rows))))

IsOrganization(r) == r["Entity Type Code"] = "2"
IsActive(r) == str_strip(r["NPI Deactivation Date"]) = ""
IsWhitelisted(r) ==
    r["Healthcare Provider Taxonomy Code_1"] \in taxonomy_codes(taxonomy_col)

Count(rows, P(_)) == Cardinality({j \in DOMAIN rows : P(rows[j])})

\* C3: for every batch processed, the entity-type stage removes exactly the
\* rows that are not organizations, the deactivation stage removes exactly the
\* organizations with a non-blank deactivation date, the taxonomy stage removes
\* exactly the active organizations outside the whitelist, and the three
\* removed counts plus the survivors add up to the batch size.
C3_StagesInOrderAndCountsAddUp ==
    \A i \in DOMAIN debug :
        LET d == debug[i]
            rows == BatchRows(i)
        IN  /\ d.size = Len(rows)
            /\ d.entity_removed = Count(rows, LAMBDA r : ~IsOrganization(r))
            /\ d.deactivation_removed =
                   Count(rows, LAMBDA r : IsOrganization(r) /\ ~IsActive(r))
            /\ d.taxonomy_removed =
                   Count(rows, LAMBDA r : IsOrganization(r) /\ IsActive(r)
                                          /\ ~IsWhitelisted(r))
            /\ d.entity_removed + d.deactivation_removed + d.taxonomy_removed
                   + Len(d.kept) = d.size

\* A batch in which every stage removed a row and a row survived.
C3_Witness ==
    \E i \in DOMAIN debug :
        /\ debug[i].entity_removed > 0
        /\ debug[i].deactivation_removed > 0
        /\ debug[i].taxonomy_removed > 0
        /\ debug[i].kept # << >>

\* C9: whatever the batch size, the result is the subsequence, in source
\* order, of the rows that are organizations, active (deactivation date blank
\* after trimming) and whitelisted; no entity-type "1" row is in it.
C9_ResultIsTheMatchingSubsequence ==
    filter_pc = "done" =>
        /\ filter_result.rows =
               SelectSeq(fillna(csv_rows),
                         LAMBDA r : IsOrganization(r) /\ IsActive(r) /\ IsWhitelisted(r))
        /\ \A j \in DOMAIN filter_result.rows :
               filter_result.rows[j]["Entity Type Code"] # "1"

\* A finished run over several batches, a batch boundary falling between two
\* survivors, with an individual and a blank-dated organization in the data.
C9_Witness ==
    /\ filter_pc = "done"
    /\ Len(debug) >= 2
    /\ Len(filtered_chunks) >= 2
    /\ Len(filter_result.rows) < Len(csv_rows)
    /\ \E j \in DOMAIN csv_rows : csv_rows[j]["Entity Type Code"] = "1"
    /\ \E j \in DOMAIN filter_result.rows :
           filter_result.rows[j]["NPI Deactivation Date"] = " "

----------------------------------------------------------------------------
(* Claims about merge_othername *)

\* C1: merge_othername returns exactly as many rows as the filtered frame has,
\* also when an identifier occurs in several alternate-name rows or in none.
C1_RowCountPreserved ==
    merge_pc = "done" => Len(merged.rows) = Len(filtered_df.rows)

\* C4: every returned row has exactly the 11 standard columns in the fixed
\* order and every cell is a string, the alternate name of an unmatched record
\* being the empty string and never the null marker.
C4_StandardColumnsNoNull ==
    merge_pc = "done" =>
        /\ merged.columns = STANDARD_COLUMNS
        /\ \A i \in DOMAIN merged.rows :
               /\ DOMAIN merged.rows[i] = Range(STANDARD_COLUMNS)
               /\ \A c \in Range(STANDARD_COLUMNS) : merged.rows[i][c] # NaN

----------------------------------------------------------------------------
(* Claims about main *)

\* C2: in a run in which no record survives the filters, main returns right
\* after filtering: the output file is not written, archive_input_files moves
\* nothing, and the input files stay in the input directories.
C2_EmptyResultStopsBeforeWriteAndArchive ==
    (filtered_done /\ empty(filtered_npi_df)) =>
        /\ pc = "Returned"
        /\ outcome = "empty"
        /\ ~written
        /\ output_state = output_at_start
        /\ moved_out = {}
        /\ held \subseteq (npi_dir \cup othername_dir)

\* A run stopped on an empty filter result, its input files still in place.
C2_Witness ==
    /\ filtered_done
    /\ empty(filtered_npi_df)
    /\ outcome = "empty"
    /\ npi_file \in npi_dir
    /\ othername_file \in othername_dir

\* C5: a run that downloaded the archive has removed nppes_data.zip and the
\* directory 'unzipped' when main returns, however the run ended.
C5_ArchiveAndScratchRemovedOnReturn ==
    (pc = "Returned" /\ downloaded) => (~zip_exists /\ unzipped = {})

\* C6: files leave the input directories only in a run that has written the
\* output file; a run that aborts or stops runs no further stage, and if it
\* did so before the write succeeded every input file it held is still in the
\* input directories when main returns.
C6_ArchiveOnlyAfterWrite ==
    /\ moved_out # {} => written
    /\ outcome \in {"aborted", "empty"} => pc = "Returned"
    /\ (pc = "Returned" /\ outcome \in {"aborted", "empty"} /\ ~written) =>
          /\ moved_out = {}
          /\ held \subseteq (npi_dir \cup othername_dir)

\* A run aborted by a failing write, with input files in the input directories.
C6_Witness ==
    /\ pc = "Returned"
    /\ outcome = "aborted"
    /\ output_state = "partial"
    /\ ~written
    /\ npi_file \in npi_dir
    /\ othername_file \in othername_dir

\* C10: a run that reaches Filtering has exactly one primary file and exactly
\* one alternate-name file in the input directories, both members of the
\* archive this run downloaded, and these are the files it filters and merges.
C10_ExactlyOneFreshFilePerRole ==
    pc = "Filtering" =>
        /\ npi_dir = {npi_file}
        /\ othername_dir = {othername_file}
        /\ npi_file \in zip_files
        /\ othername_file \in zip_files

----------------------------------------------------------------------------
(* Claims about the Group Registry *)

RegistryNpis == {GROUP_CSV.rows[i]["NPI"] : i \in DOMAIN GROUP_CSV.rows}

\* C7: an edit-dates write leaves the number and order of the rows, and the
\* Group Name, NPI and Pharmacy Name of every row, as they were in the file
\* the handler read, and leaves every field of the rows outside the selection
\* as it was.
C7_EditDatesChangesOnlyDates ==
    last_write.op = "edit" =>
        LET before == last_write.base.rows
            after == GROUP_CSV.rows
        IN  /\ Len(after) = Len(before)
            /\ \A i \in DOMAIN before :
                   /\ i \in DOMAIN after
                   /\ after[i]["NPI"] = before[i]["NPI"]
                   /\ after[i]["Group Name"] = before[i]["Group Name"]
                   /\ after[i]["Pharmacy Name"] = before[i]["Pharmacy Name"]
                   /\ before[i]["NPI"] \notin last_write.npis => after[i] = before[i]

\* C8: as long as a single session has written the registry no write is made
\* from a stale read, and as long as no write was made from a stale read every
\* identifier reported added (and not reported deleted since) is in the
\* registry; with two sessions a reported addition can be missing.
C8_NoLossWithoutStaleWrite ==
    /\ Cardinality(writers) <= 1 => ~stale_write
    /\ ~stale_write => reported \subseteq RegistryNpis

\* Two sessions interleaved: an identifier reported added is not in the
\* registry, the other session having written a frame it read earlier.
C8_Witness ==
    /\ stale_write
    /\ writers = Sessions
    /\ ~(reported \subseteq RegistryNpis)

====
